---------------------------- MODULE Spec2Model ----------------------------
(***************************************************************************)
(* A model of lib/utils.py of vmware-openapi-generator: the URL            *)
(* placeholder reconciliation (extract_path_parameters), the path object   *)
(* builder and its post-processing (build_path,                            *)
(* create_req_body_from_params_list, add_basic_auth), add_query_param,     *)
(* metamodel_to_swagger_type_converter and HttpErrorMap.                   *)
(*                                                                         *)
(* Python strings are sequences of one-character strings, so that          *)
(* re.finditer, str.replace, str.find, str.lower and int() are computed    *)
(* character by character.  Strings that the code only splits on one       *)
(* separator (service names on '.', $ref values on '/') are the sequences  *)
(* of their segments, which is what str.split returns.                     *)
(*                                                                         *)
(* eprint and print only write diagnostics; they change no value the       *)
(* functions return.  eprint's body (line 16) passes a positional argument *)
(* after a keyword argument, which Python 3 rejects when it compiles the   *)
(* file; it is read here as printing its arguments to sys.stderr, and the *)
(* placeholders it is called for are kept in the variable reported.        *)
(***************************************************************************)
EXTENDS Integers, Sequences, FiniteSets, TLC

VARIABLES
    \* extract_path_parameters
    url, params, new_url, path_params, other_params, idx, reported,
    resolution, pc,
    \* HttpErrorMap.__init__
    structures, error_api_map, error_rest_map, sidx, printed, epc,
    \* add_query_param: its arguments, its result, and its result applied again
    qurl, qparam, once, twice, qpc,
    \* metamodel_to_swagger_type_converter: its argument and its result
    input_type, converted, tpc,
    \* build_path and the post-processing of its result: the arguments of the
    \* call, the path object, the post-processing functions already applied
    call, path_obj, applied, bpc

pathVars == <<url, params, new_url, path_params, other_params, idx,
              reported, resolution, pc>>

errVars == <<structures, error_api_map, error_rest_map, sidx, printed, epc>>

queryVars == <<qurl, qparam, once, twice, qpc>>

typeVars == <<input_type, converted, tpc>>

buildVars == <<call, path_obj, applied, bpc>>

vars == <<pathVars, errVars, queryVars, typeVars, buildVars>>

None == "None"

(***************************************************************************)
(* Strings                                                                 *)
(***************************************************************************)
Range(s) == {s[i] : i \in 1..Len(s)}

Min(S) == CHOOSE x \in S : \A y \in S : x <= y

RECURSIVE Concat(_)
\* ''.join(parts)
Concat(parts) ==
    IF parts = <<>> THEN <<>> ELSE Head(parts) \o Concat(Tail(parts))

\* s[i:].startswith(t), i counted from 1
OccursAt(s, t, i) ==
    /\ i + Len(t) - 1 <= Len(s)
    /\ \A k \in 1..Len(t) : s[i + k - 1] = t[k]

\* str.find: the lowest 0-based index of t in s, or -1
Find(s, t) ==
    LET hits == {i \in 1..(Len(s) + 1) : OccursAt(s, t, i)}
    IN  IF hits = {} THEN -1 ELSE Min(hits) - 1

RECURSIVE ReplaceFrom(_, _, _, _)
ReplaceFrom(s, old, new, i) ==
    IF i > Len(s) THEN <<>>
    ELSE IF OccursAt(s, old, i)
         THEN new \o ReplaceFrom(s, old, new, i + Len(old))
         ELSE <<s[i]>> \o ReplaceFrom(s, old, new, i + 1)

\* str.replace(old, new) for a non-empty old: every non-overlapping
\* occurrence, left to right
Replace(s, old, new) == ReplaceFrom(s, old, new, 1)

(***************************************************************************)
(* extract_path_parameters                                                 *)
(***************************************************************************)
RECURSIVE FindIterFrom(_, _)
\* re.compile('{(.+?)}').finditer(u), scanning from position i: the leftmost
\* '{' that has a '}' at least two characters later, up to the first such '}'
FindIterFrom(u, i) ==
    LET closes(s) == {e \in (s + 2)..Len(u) : u[e] = "}"}
        starts == {s \in i..Len(u) : u[s] = "{" /\ closes(s) # {}}
    IN  IF starts = {} THEN <<>>
        ELSE LET s == Min(starts)
                 e == Min(closes(s))
             IN  <<[start |-> s, end |-> e]>> \o FindIterFrom(u, e + 1)

re_path_param(u) == FindIterFrom(u, 1)

\* match.group(): the whole match, braces included
Group0(u, m) == SubSeq(u, m.start, m.end)

\* match.group(1): the placeholder text
Group1(u, m) == SubSeq(u, m.start + 1, m.end - 1)

\* 'PathVariable' in param.metadata; metadata is a set of <<tag, payload>>
HasTag(param, tag) == \E e \in param.metadata : e[1] = tag

\* param.metadata[tag].elements['value'].string_value
TagValue(param, tag) == (CHOOSE e \in param.metadata : e[1] = tag)[2]

is_param_path_variable(param, path_param_placeholder) ==
    IF param.name = path_param_placeholder THEN TRUE
    ELSE IF ~HasTag(param, "PathVariable") THEN FALSE
    ELSE TagValue(param, "PathVariable") = path_param_placeholder

\* a variant of Braced that loses the opening brace
BracedNoOpen(name) == name \o <<"}">>

\* '{' + param.name + '}'
Braced(name) == <<"{">> \o name \o <<"}">>

\* a variant of Rewrite that never rewrites
RewriteNone(cur, whole, placeholder, param) == cur

\* if param.name != path_param_placeholder: new_url = new_url.replace(...)
Rewrite(cur, whole, placeholder, param) ==
    IF param.name # placeholder
    THEN Replace(cur, whole, Braced(param.name))
    ELSE cur

\* a variant of ListRemove that removes nothing
ListRemoveNothing(list, x) == list

\* list.remove(x): drops the first element equal to x
ListRemove(list, x) ==
    LET i == Min({k \in 1..Len(list) : list[k] = x})
    IN  SubSeq(list, 1, i - 1) \o SubSeq(list, i + 1, Len(list))

\* the inner for loop: the positions of the remaining parameters that match
MatchingParams(others, placeholder) ==
    {k \in 1..Len(others) : is_param_path_variable(others[k], placeholder)}

\* path_param_info is None after the inner loop
NoMatch(others, placeholder) == MatchingParams(others, placeholder) = {}

\* the parameter the inner loop breaks on: the first that matches
FirstMatch(others, placeholder) ==
    others[Min(MatchingParams(others, placeholder))]

\* ---- inputs ----
MaxPieces == 3
MaxParams == 2

\* what a URL template is made of: a separator, two placeholders, and the
\* two brace characters on their own (templates that are not well formed)
Pieces == { <<"/">>, <<"{", "a", "}">>, <<"{", "b", "}">>, <<"{">>, <<"}">> }

SeqsUpTo(S, n) == UNION {[1..k -> S] : k \in 0..n}

Urls == {Concat(ps) : ps \in SeqsUpTo(Pieces, MaxPieces)}

NoMeta == {}
PathVariable(v) == {<<"PathVariable", v>>}

\* (name, metadata) of the parameters an operation may declare
ParamKinds ==
    { [name |-> <<"a">>, metadata |-> NoMeta],
      [name |-> <<"b">>, metadata |-> NoMeta],
      [name |-> <<"b">>, metadata |-> PathVariable(<<"a">>)],
      [name |-> <<"a", "b">>, metadata |-> PathVariable(<<"a">>)],
      [name |-> <<"a", "b">>, metadata |-> PathVariable(<<"b">>)],
      [name |-> <<"a">>, metadata |-> PathVariable(<<"b">>)] }

\* a parameter list: objects told apart by identity (id), in declaration order
ParamLists ==
    { [i \in 1..Len(ks) |-> [id |-> i, name |-> ks[i].name,
                             metadata |-> ks[i].metadata]] :
        ks \in SeqsUpTo(ParamKinds, MaxParams) }

\* the state of a component that a specification does not exercise
IdlePath ==
    /\ url = <<>> /\ params = <<>> /\ new_url = <<>> /\ path_params = <<>>
    /\ other_params = <<>> /\ idx = 0 /\ reported = <<>> /\ resolution = <<>>
    /\ pc = "idle"

IdleErr ==
    /\ structures = <<>> /\ error_api_map = <<>> /\ error_rest_map = <<>>
    /\ sidx = 0 /\ printed = <<>> /\ epc = "idle"

IdleQuery ==
    /\ qurl = <<>> /\ qparam = <<>> /\ once = <<>> /\ twice = <<>>
    /\ qpc = "idle"

IdleType == input_type = <<>> /\ converted = <<>> /\ tpc = "idle"

IdleBuild == call = <<>> /\ path_obj = <<>> /\ applied = {} /\ bpc = "idle"

InitPath ==
    /\ IdleErr /\ IdleQuery /\ IdleType /\ IdleBuild
    /\ url \in Urls
    /\ params \in ParamLists
    /\ new_url = url
    /\ path_params = <<>>
    /\ other_params = params
    /\ idx = 1
    /\ reported = <<>>
    /\ resolution = <<>>
    /\ pc = "loop"

\* one iteration of the outer loop whose placeholder matches a parameter
PlaceholderMatched ==
    /\ pc = "loop"
    /\ idx <= Len(re_path_param(url))
    /\ LET m == re_path_param(url)[idx]
           path_param_placeholder == Group1(url, m)
           path_param_info == FirstMatch(other_params, path_param_placeholder)
       IN  /\ ~NoMatch(other_params, path_param_placeholder)
           /\ new_url' = Rewrite(new_url, Group0(url, m),
                                 path_param_placeholder, path_param_info)
           /\ path_params' = Append(path_params, path_param_info)
           /\ other_params' = ListRemove(other_params, path_param_info)
           /\ resolution' = Append(resolution, path_param_info.name)
    /\ idx' = idx + 1
    /\ UNCHANGED <<url, params, reported, pc, errVars, queryVars, typeVars, buildVars>>

\* one iteration whose placeholder matches nothing: eprint, nothing else
PlaceholderNotFound ==
    /\ pc = "loop"
    /\ idx <= Len(re_path_param(url))
    /\ LET m == re_path_param(url)[idx]
           path_param_placeholder == Group1(url, m)
       IN  /\ NoMatch(other_params, path_param_placeholder)
           /\ reported' = Append(reported, path_param_placeholder)
           /\ resolution' = Append(resolution, path_param_placeholder)
    /\ idx' = idx + 1
    /\ UNCHANGED <<url, params, new_url, path_params, other_params, pc,
                   errVars, queryVars, typeVars, buildVars>>

\* return path_params, other_params, new_url
ReturnPath ==
    /\ pc = "loop"
    /\ idx > Len(re_path_param(url))
    /\ pc' = "done"
    /\ UNCHANGED <<url, params, new_url, path_params, other_params, idx,
                   reported, resolution, errVars, queryVars, typeVars, buildVars>>

NextPath == PlaceholderMatched \/ PlaceholderNotFound \/ ReturnPath

SpecPath == InitPath /\ [][NextPath]_vars


(***************************************************************************)
(* HttpErrorMap.__init__                                                   *)
(***************************************************************************)
\* six.moves.http_client status codes
BAD_REQUEST == 400
UNAUTHORIZED == 401
FORBIDDEN == 403
NOT_FOUND == 404
INTERNAL_SERVER_ERROR == 500
SERVICE_UNAVAILABLE == 503
GATEWAY_TIMEOUT == 504

\* the names seeded with a status other than BAD_REQUEST
SeededOther ==
    ("com.vmware.vapi.std.errors.internal_server_error" :> INTERNAL_SERVER_ERROR)
    @@ ("com.vmware.vapi.std.errors.not_found" :> NOT_FOUND)
    @@ ("com.vmware.vapi.std.errors.operation_not_found" :> NOT_FOUND)
    @@ ("com.vmware.vapi.std.errors.service_unavailable" :> SERVICE_UNAVAILABLE)
    @@ ("com.vmware.vapi.std.errors.timed_out" :> GATEWAY_TIMEOUT)
    @@ ("com.vmware.vapi.std.errors.unauthenticated" :> UNAUTHORIZED)
    @@ ("com.vmware.vapi.std.errors.unauthorized" :> FORBIDDEN)

SeededBadRequest ==
    { "com.vmware.vapi.std.errors.already_exists",
      "com.vmware.vapi.std.errors.already_in_desired_state",
      "com.vmware.vapi.std.errors.feature_in_use",
      "com.vmware.vapi.std.errors.invalid_argument",
      "com.vmware.vapi.std.errors.invalid_element_configuration",
      "com.vmware.vapi.std.errors.invalid_element_type",
      "com.vmware.vapi.std.errors.invalid_request",
      "com.vmware.vapi.std.errors.not_allowed_in_current_state",
      "com.vmware.vapi.std.errors.resource_busy",
      "com.vmware.vapi.std.errors.resource_in_use",
      "com.vmware.vapi.std.errors.resource_inaccessible",
      "com.vmware.vapi.std.errors.unable_to_allocate_resource",
      "com.vmware.vapi.std.errors.unexpected_input",
      "com.vmware.vapi.std.errors.unsupported",
      "com.vmware.vapi.std.errors.error",
      "com.vmware.vapi.std.errors.concurrent_change",
      "com.vmware.vapi.std.errors.canceled",
      "com.vmware.vapi.std.errors.unverified_peer" }

\* self.error_rest_map as the constructor seeds it
StaticErrorRestMap ==
    SeededOther @@ [n \in SeededBadRequest |-> BAD_REQUEST]

Digits == <<"0", "1", "2", "3", "4", "5", "6", "7", "8", "9">>

IsDigit(c) == \E d \in 1..10 : Digits[d] = c

DigitValue(c) == (CHOOSE d \in 1..10 : Digits[d] = c) - 1

RECURSIVE StripLeft(_)
StripLeft(s) == IF s # <<>> /\ Head(s) = " " THEN StripLeft(Tail(s)) ELSE s

RECURSIVE StripRight(_)
StripRight(s) ==
    IF s # <<>> /\ s[Len(s)] = " "
    THEN StripRight(SubSeq(s, 1, Len(s) - 1)) ELSE s

RECURSIVE DigitsValue(_)
\* the value of a run of decimal digits, most significant first
DigitsValue(ds) ==
    IF ds = <<>> THEN 0
    ELSE 10 * DigitsValue(SubSeq(ds, 1, Len(ds) - 1)) + DigitValue(ds[Len(ds)])

\* int(text) on text made of digits, signs, blanks and other characters:
\* blanks around are dropped, one sign may lead, at least one digit follows.
\* ok = FALSE is ValueError.
int(text) ==
    LET t == StripRight(StripLeft(text))
        signed == t # <<>> /\ Head(t) \in {"-", "+"}
        body == IF signed THEN Tail(t) ELSE t
        ok == body # <<>> /\ \A i \in 1..Len(body) : IsDigit(body[i])
    IN  [ok |-> ok,
         value |-> IF ~ok THEN 0
                   ELSE IF signed /\ Head(t) = "-" THEN 0 - DigitsValue(body)
                   ELSE DigitsValue(body)]

\* metadata[key]: metadata and elements are sets of <<key, payload>>
HasKey(mapping, key) == \E e \in mapping : e[1] = key
Lookup(mapping, key) == (CHOOSE e \in mapping : e[1] = key)[2]

\* what the body of the try block does with one structure:
\*   "KeyError"   no 'Response' in metadata, or no 'code' in its elements
\*   "None"       metadata['Response'] is None: nothing is done
\*   "ValueError" int(code) fails
\*   "mapped"     error_api_map[structure] = int(code)
TryOutcome(metadata) ==
    IF ~HasKey(metadata, "Response") THEN "KeyError"
    ELSE IF Lookup(metadata, "Response").is_none THEN "None"
    ELSE IF ~HasKey(Lookup(metadata, "Response").elements, "code") THEN "KeyError"
    ELSE IF ~int(Lookup(Lookup(metadata, "Response").elements, "code")).ok
         THEN "ValueError"
    ELSE "mapped"

CodeOf(metadata) == Lookup(Lookup(metadata, "Response").elements, "code")

\* a variant of DictSet that forgets the other keys
DictSetForgetting(d, k, v) == k :> v

\* d[k] = v on a dict
DictSet(d, k, v) == (k :> v) @@ d

\* ---- inputs ----
MaxStructures == 2

StructureNames ==
    { "com.vmware.vapi.std.errors.not_found",
      "com.vmware.vapi.std.errors.unauthenticated",
      "com.vmware.vapi.std.errors.custom" }

\* Response.code texts: "404", "500", "-1", " 42", "4x4", "4.0", ""
CodeTexts ==
    { <<"4", "0", "4">>, <<"5", "0", "0">>, <<"-", "1">>, <<" ", "4", "2">>,
      <<"4", "x", "4">>, <<"4", ".", "0">>, <<>> }

ResponseIsNone == [is_none |-> TRUE, elements |-> {}]
ResponseWith(elements) == [is_none |-> FALSE, elements |-> elements]

StructureMetadata ==
    { {},
      {<<"Response", ResponseIsNone>>},
      {<<"Response", ResponseWith({})>>},
      {<<"Response", ResponseWith({<<"reason", <<"x">>>>})>>} }
    \cup { {<<"Response", ResponseWith({<<"code", c>>})>>} : c \in CodeTexts }

\* the structures dict in iteration order: distinct names, each with metadata
StructureSeqs ==
    { st \in SeqsUpTo([name : StructureNames, metadata : StructureMetadata],
                      MaxStructures) :
        \A i, j \in 1..Len(st) : i # j => st[i].name # st[j].name }

InitErr ==
    /\ IdlePath /\ IdleQuery /\ IdleType /\ IdleBuild
    /\ structures \in StructureSeqs
    /\ error_api_map = <<>>
    /\ error_rest_map = StaticErrorRestMap
    /\ sidx = 1
    /\ printed = <<>>
    /\ epc = "loop"

AtStructure(outcome) ==
    /\ epc = "loop"
    /\ sidx <= Len(structures)
    /\ TryOutcome(structures[sidx].metadata) = outcome

\* self.error_api_map[structure] = int(code)
StructureMapped ==
    /\ AtStructure("mapped")
    /\ error_api_map' = DictSet(error_api_map, structures[sidx].name,
                                int(CodeOf(structures[sidx].metadata)).value)
    /\ sidx' = sidx + 1
    /\ UNCHANGED <<structures, error_rest_map, printed, epc, pathVars, queryVars, typeVars, buildVars>>

\* metadata['Response'] is None: the if is false
StructureResponseNone ==
    /\ AtStructure("None")
    /\ sidx' = sidx + 1
    /\ UNCHANGED <<structures, error_api_map, error_rest_map, printed, epc,
                   pathVars, queryVars, typeVars, buildVars>>

\* except KeyError: print and go on
StructureKeyError ==
    /\ AtStructure("KeyError")
    /\ printed' = Append(printed, structures[sidx].name)
    /\ sidx' = sidx + 1
    /\ UNCHANGED <<structures, error_api_map, error_rest_map, epc, pathVars, queryVars, typeVars, buildVars>>

\* int(code) raises ValueError, which no except clause names: it leaves
\* __init__
StructureValueError ==
    /\ AtStructure("ValueError")
    /\ epc' = "raised"
    /\ UNCHANGED <<structures, error_api_map, error_rest_map, sidx, printed,
                   pathVars, queryVars, typeVars, buildVars>>

\* the for loop is exhausted
ErrMapBuilt ==
    /\ epc = "loop"
    /\ sidx > Len(structures)
    /\ epc' = "done"
    /\ UNCHANGED <<structures, error_api_map, error_rest_map, sidx, printed,
                   pathVars, queryVars, typeVars, buildVars>>

NextErr ==
    \/ StructureMapped
    \/ StructureResponseNone
    \/ StructureKeyError
    \/ StructureValueError
    \/ ErrMapBuilt

SpecErr == InitErr /\ [][NextErr]_vars

(***************************************************************************)
(* add_query_param                                                         *)
(***************************************************************************)
\* a variant of add_query_param that appends without looking
AddQueryParamAlways(url_arg, param) == url_arg \o <<"&">> \o param

add_query_param(url_arg, param) ==
    LET query_index == Find(url_arg, <<"?">>)
        \* url[query_index + 1:]
        after == SubSeq(url_arg, query_index + 2, Len(url_arg))
    IN  IF query_index > -1
        THEN IF query_index = Len(url_arg) THEN url_arg \o param
             ELSE IF Find(after, param) > -1 THEN url_arg
             ELSE url_arg \o <<"&">> \o param
        ELSE url_arg \o <<"?">> \o param

\* ---- inputs ----
MaxQueryUrlLen == 3
MaxQueryParamLen == 2

QueryChars == {"/", "?", "a", "="}

InitQuery ==
    /\ IdlePath /\ IdleErr /\ IdleType /\ IdleBuild
    /\ qurl \in SeqsUpTo(QueryChars, MaxQueryUrlLen)
    /\ qparam \in SeqsUpTo(QueryChars, MaxQueryParamLen)
    /\ once = <<>>
    /\ twice = <<>>
    /\ qpc = "start"

\* once = add_query_param(url, param)
AddQueryParamOnce ==
    /\ qpc = "start"
    /\ once' = add_query_param(qurl, qparam)
    /\ qpc' = "once"
    /\ UNCHANGED <<qurl, qparam, twice, pathVars, errVars, typeVars, buildVars>>

\* twice = add_query_param(once, param)
AddQueryParamAgain ==
    /\ qpc = "once"
    /\ twice' = add_query_param(once, qparam)
    /\ qpc' = "done"
    /\ UNCHANGED <<qurl, qparam, once, pathVars, errVars, typeVars, buildVars>>

NextQuery == AddQueryParamOnce \/ AddQueryParamAgain

SpecQuery == InitQuery /\ [][NextQuery]_vars

(***************************************************************************)
(* metamodel_to_swagger_type_converter                                     *)
(***************************************************************************)
UpperLetters ==
    <<"A", "B", "C", "D", "E", "F", "G", "H", "I", "J", "K", "L", "M",
      "N", "O", "P", "Q", "R", "S", "T", "U", "V", "W", "X", "Y", "Z">>

LowerLetters ==
    <<"a", "b", "c", "d", "e", "f", "g", "h", "i", "j", "k", "l", "m",
      "n", "o", "p", "q", "r", "s", "t", "u", "v", "w", "x", "y", "z">>

LowerChar(c) ==
    IF \E i \in 1..Len(UpperLetters) : UpperLetters[i] = c
    THEN LowerLetters[CHOOSE i \in 1..Len(UpperLetters) : UpperLetters[i] = c]
    ELSE c

UpperChar(c) ==
    IF \E i \in 1..Len(LowerLetters) : LowerLetters[i] = c
    THEN UpperLetters[CHOOSE i \in 1..Len(LowerLetters) : LowerLetters[i] = c]
    ELSE c

\* str.lower()
lower(s) == [i \in 1..Len(s) |-> LowerChar(s[i])]

\* str.upper()
upper(s) == [i \in 1..Len(s) |-> UpperChar(s[i])]

T_date_time == <<"d", "a", "t", "e", "_", "t", "i", "m", "e">>
T_secret == <<"s", "e", "c", "r", "e", "t">>
T_any_error == <<"a", "n", "y", "_", "e", "r", "r", "o", "r">>
T_opaque == <<"o", "p", "a", "q", "u", "e">>
T_dynamic_structure == <<"d", "y", "n", "a", "m", "i", "c", "_", "s", "t", "r", "u", "c", "t", "u", "r", "e">>
T_uri == <<"u", "r", "i">>
T_id == <<"i", "d">>
T_long == <<"l", "o", "n", "g">>
T_double == <<"d", "o", "u", "b", "l", "e">>
T_binary == <<"b", "i", "n", "a", "r", "y">>
T_string == <<"s", "t", "r", "i", "n", "g">>
T_object == <<"o", "b", "j", "e", "c", "t">>
T_integer == <<"i", "n", "t", "e", "g", "e", "r">>
T_number == <<"n", "u", "m", "b", "e", "r">>
T_boolean == <<"b", "o", "o", "l", "e", "a", "n">>
T_custom == <<"c", "u", "s", "t", "o", "m">>

\* a variant of the converter that never lowers its argument
ConverterCaseSensitive(input_type_arg) ==
    LET lowered == input_type_arg
    IN  IF lowered = T_date_time THEN <<T_string, "date-time">>
        ELSE IF lowered = T_secret THEN <<T_string, "password">>
        ELSE IF lowered = T_any_error THEN <<T_string, None>>
        ELSE IF lowered = T_opaque THEN <<T_object, None>>
        ELSE IF lowered = T_dynamic_structure THEN <<T_object, None>>
        ELSE IF lowered = T_uri THEN <<T_string, "uri">>
        ELSE IF lowered = T_id THEN <<T_string, None>>
        ELSE IF lowered = T_long THEN <<T_integer, "int64">>
        ELSE IF lowered = T_double THEN <<T_number, "double">>
        ELSE IF lowered = T_binary THEN <<T_string, "binary">>
        ELSE <<lowered, None>>

\* input_type = input_type.lower(), the ten ifs, and the final return
metamodel_to_swagger_type_converter(input_type_arg) ==
    LET lowered == lower(input_type_arg)
    IN  IF lowered = T_date_time THEN <<T_string, "date-time">>
        ELSE IF lowered = T_secret THEN <<T_string, "password">>
        ELSE IF lowered = T_any_error THEN <<T_string, None>>
        ELSE IF lowered = T_opaque THEN <<T_object, None>>
        ELSE IF lowered = T_dynamic_structure THEN <<T_object, None>>
        ELSE IF lowered = T_uri THEN <<T_string, "uri">>
        ELSE IF lowered = T_id THEN <<T_string, None>>
        ELSE IF lowered = T_long THEN <<T_integer, "int64">>
        ELSE IF lowered = T_double THEN <<T_number, "double">>
        ELSE IF lowered = T_binary THEN <<T_string, "binary">>
        ELSE <<lowered, None>>

\* ---- inputs ----
TypeWords ==
    { T_date_time, T_secret, T_any_error, T_opaque, T_dynamic_structure,
      T_uri, T_id, T_long, T_double, T_binary, T_string, T_boolean, T_custom }

\* a word in lower case, in upper case, and with any one letter in upper case
Casings(w) ==
    {w, upper(w)} \cup {[w EXCEPT ![i] = UpperChar(w[i])] : i \in 1..Len(w)}

InitType ==
    /\ IdlePath /\ IdleErr /\ IdleQuery /\ IdleBuild
    /\ input_type \in UNION {Casings(w) : w \in TypeWords}
    /\ converted = <<>>
    /\ tpc = "start"

ConvertType ==
    /\ tpc = "start"
    /\ converted' = metamodel_to_swagger_type_converter(input_type)
    /\ tpc' = "done"
    /\ UNCHANGED <<input_type, pathVars, errVars, queryVars, buildVars>>

NextType == ConvertType

SpecType == InitType /\ [][NextType]_vars

(***************************************************************************)
(* build_path, create_req_body_from_params_list, add_basic_auth            *)
(***************************************************************************)
TAG_SEPARATOR == "/"

\* an argument that is None, and one that is not
NoneArg == [is_none |-> TRUE]
Some(v) == [is_none |-> FALSE, value |-> v]

RECURSIVE Join(_, _)
\* sep.join(parts) on strings
Join(sep, parts) ==
    IF parts = <<>> THEN ""
    ELSE IF Len(parts) = 1 THEN parts[1]
    ELSE parts[1] \o sep \o Join(sep, Tail(parts))

\* service_name is service_name.split('.'), the list of its segments
tags_from_service_name(service_name) ==
    <<Join(TAG_SEPARATOR, SubSeq(service_name, 4, Len(service_name)))>>

\* path_obj[key] = arg when arg is not None
SetIfGiven(key, arg) == IF arg.is_none THEN <<>> ELSE key :> arg.value

build_path(c) ==
    ("tags" :> tags_from_service_name(c.service_name))
    @@ SetIfGiven("method", c.method)
    @@ SetIfGiven("path", c.path)
    @@ SetIfGiven("summary", c.documentation)
    @@ SetIfGiven("parameters", c.parameters)
    @@ SetIfGiven("responses", c.responses)
    @@ SetIfGiven("consumes", c.consumes)
    @@ SetIfGiven("produces", c.produces)
    @@ SetIfGiven("operationId", c.operation_id)

\* a $ref value is value.split('/'), so that
\* value.startswith('#/components/requestBodies/') reads: at least four
\* segments, the first three being '#', 'components', 'requestBodies'
StartsWithRequestBodies(ref) ==
    /\ Len(ref) >= 4
    /\ SubSeq(ref, 1, 3) = <<"#", "components", "requestBodies">>

\* the if of line 307
IsRequestBodyRef(entry) ==
    "$ref" \in DOMAIN entry /\ StartsWithRequestBodies(entry["$ref"])

Max(S) == CHOOSE x \in S : \A y \in S : y <= x

\* a variant of FirstRequestBodyIndex without the break: the last index
LastRequestBodyIndex(parameters) ==
    LET hits == {i \in 1..Len(parameters) : IsRequestBodyRef(parameters[i])}
    IN  IF hits = {} THEN -1 ELSE Max(hits)

\* the for loop with its break: the first index that qualifies (from 1),
\* or -1
FirstRequestBodyIndex(parameters) ==
    LET hits == {i \in 1..Len(parameters) : IsRequestBodyRef(parameters[i])}
    IN  IF hits = {} THEN -1 ELSE Min(hits)

\* del list[index]
DelAt(list, index) ==
    SubSeq(list, 1, index - 1) \o SubSeq(list, index + 1, Len(list))

\* the body of create_req_body_from_params_list once path_obj['parameters']
\* was read
create_req_body_from_params_list(obj) ==
    LET parameters == obj["parameters"]
        index == FirstRequestBodyIndex(parameters)
    IN  IF parameters # <<>> /\ index # -1
        THEN ("requestBody" :> ("$ref" :> parameters[index]["$ref"]))
             @@ [obj EXCEPT !["parameters"] = DelAt(parameters, index)]
        ELSE obj

SessionPath == "/com/vmware/cis/session"

\* path_obj['path'] or path_obj['method'] raises KeyError; 'and' reads the
\* method only when the path is the session path
AddBasicAuthRaises(obj) ==
    IF "path" \notin DOMAIN obj THEN TRUE
    ELSE obj["path"] = SessionPath /\ "method" \notin DOMAIN obj

add_basic_auth(obj) ==
    IF obj["path"] = SessionPath /\ obj["method"] = "post"
    THEN ("security" :> <<("basic_auth" :> <<>>)>>) @@ obj
    ELSE obj

\* ---- inputs ----
MaxEntries == 2

\* entries of a parameters list: two references into requestBodies, a
\* reference into another collection, and an inline parameter
ParameterEntries ==
    { ("$ref" :> <<"#", "components", "requestBodies", "A">>),
      ("$ref" :> <<"#", "components", "requestBodies", "B">>),
      ("$ref" :> <<"#", "components", "parameters", "P">>),
      ("name" :> "x" @@ "in" :> "query") }

Optional(S) == {NoneArg} \cup {Some(v) : v \in S}

Calls ==
    [ service_name : { <<"com", "vmware", "vcenter", "VM">>,
                       <<"com", "vmware">> },
      method : Optional({"post", "get"}),
      path : Optional({SessionPath, "/x"}),
      documentation : Optional({"doc"}),
      parameters : Optional(SeqsUpTo(ParameterEntries, MaxEntries)),
      operation_id : Optional({"op"}),
      responses : Optional({[ok |-> "200"]}),
      consumes : Optional({<<"application/json">>}),
      produces : Optional({<<"application/json">>}) ]

InitBuild ==
    /\ IdlePath /\ IdleErr /\ IdleQuery /\ IdleType
    /\ call \in Calls
    /\ path_obj = <<>>
    /\ applied = {}
    /\ bpc = "start"

BuildPath ==
    /\ bpc = "start"
    /\ path_obj' = build_path(call)
    /\ bpc' = "built"
    /\ UNCHANGED <<call, applied, pathVars, errVars, queryVars, typeVars>>

CreateReqBody ==
    /\ bpc = "built"
    /\ "create_req_body_from_params_list" \notin applied
    /\ "parameters" \in DOMAIN path_obj
    /\ path_obj' = create_req_body_from_params_list(path_obj)
    /\ applied' = applied \cup {"create_req_body_from_params_list"}
    /\ UNCHANGED <<call, bpc, pathVars, errVars, queryVars, typeVars>>

\* path_obj['parameters'] on an object built without parameters
CreateReqBodyKeyError ==
    /\ bpc = "built"
    /\ "create_req_body_from_params_list" \notin applied
    /\ "parameters" \notin DOMAIN path_obj
    /\ bpc' = "raised"
    /\ UNCHANGED <<call, path_obj, applied, pathVars, errVars, queryVars,
                   typeVars>>

AddBasicAuth ==
    /\ bpc = "built"
    /\ "add_basic_auth" \notin applied
    /\ ~AddBasicAuthRaises(path_obj)
    /\ path_obj' = add_basic_auth(path_obj)
    /\ applied' = applied \cup {"add_basic_auth"}
    /\ UNCHANGED <<call, bpc, pathVars, errVars, queryVars, typeVars>>

AddBasicAuthKeyError ==
    /\ bpc = "built"
    /\ "add_basic_auth" \notin applied
    /\ AddBasicAuthRaises(path_obj)
    /\ bpc' = "raised"
    /\ UNCHANGED <<call, path_obj, applied, pathVars, errVars, queryVars,
                   typeVars>>

NextBuild ==
    \/ BuildPath
    \/ CreateReqBody
    \/ CreateReqBodyKeyError
    \/ AddBasicAuth
    \/ AddBasicAuthKeyError

SpecBuild == InitBuild /\ [][NextBuild]_vars

(***************************************************************************)
(* Properties of extract_path_parameters (under SpecPath)                  *)
(***************************************************************************)
\* the {token} placeholders of u, left to right
Tokens(u) == [i \in 1..Len(re_path_param(u)) |-> Group1(u, re_path_param(u)[i])]

PathParamNames == {path_params[k].name : k \in 1..Len(path_params)}

\* a template whose every brace opens or closes one of its placeholders
WellFormed(u) ==
    \A i \in 1..Len(u) :
        /\ u[i] = "{" => \E k \in 1..Len(re_path_param(u)) :
                              re_path_param(u)[k].start = i
        /\ u[i] = "}" => \E k \in 1..Len(re_path_param(u)) :
                              re_path_param(u)[k].end = i

\* C1 as stated: every {token} of the returned URL is the name of a returned
\* path parameter, also when a placeholder of the URL matched no parameter.
C1_EveryTokenNamesAPathParam ==
    pc = "done" =>
        \A i \in 1..Len(Tokens(new_url)) : Tokens(new_url)[i] \in PathParamNames

\* C1 amended: for a well-formed URL template, every {token} of the returned
\* URL is the name of a returned path parameter or the text of a placeholder
\* that was reported as matching no parameter.
C1_TokenIsPathParamOrReported ==
    (pc = "done" /\ WellFormed(url)) =>
        \A i \in 1..Len(Tokens(new_url)) :
            \/ Tokens(new_url)[i] \in PathParamNames
            \/ Tokens(new_url)[i] \in Range(reported)

C1_Witness ==
    /\ pc = "done"
    /\ WellFormed(url)
    /\ reported # <<>>
    /\ path_params # <<>>
    /\ new_url # url

\* C2: the returned path parameters and other parameters are disjoint, and
\* together they are exactly the parameters given, none lost, none twice.
C2_Partition ==
    pc = "done" =>
        /\ Range(path_params) \cap Range(other_params) = {}
        /\ Range(path_params) \cup Range(other_params) = Range(params)
        /\ Len(path_params) + Len(other_params) = Len(params)

C2_Witness ==
    /\ pc = "done"
    /\ path_params # <<>>
    /\ other_params # <<>>
    /\ reported # <<>>

\* C3: after any number of per-placeholder rewrites the URL holds as many
\* {token} placeholders as the URL given.
C3_PlaceholderCountKept ==
    Len(re_path_param(new_url)) = Len(re_path_param(url))

C3_Witness ==
    /\ pc = "done"
    /\ Len(path_params) >= 2
    /\ new_url # url
    /\ \E i \in 1..Len(url) : new_url[i] # url[i]

\* C9 as stated: placeholder by placeholder, the returned URL holds the
\* matched parameter's name where the placeholder matched and the original
\* text where it did not; no rewrite touches another placeholder.
C9_PlaceholdersIndependent ==
    pc = "done" => Tokens(new_url) = resolution


(***************************************************************************)
(* Properties of HttpErrorMap (under SpecErr)                              *)
(***************************************************************************)
\* the structure carries a Response annotation that has a code element
CarriesCode(st) ==
    \E r \in st.metadata :
        /\ r[1] = "Response"
        /\ ~r[2].is_none
        /\ \E c \in r[2].elements : c[1] = "code"

CodeTextOf(st) ==
    LET r == CHOOSE r \in st.metadata : r[1] = "Response"
    IN  (CHOOSE c \in r[2].elements : c[1] = "code")[2]

\* a decimal integer: digits, after an optional minus sign
IsDecimalText(t) ==
    LET body == IF t # <<>> /\ Head(t) = "-" THEN Tail(t) ELSE t
    IN  body # <<>> /\ \A i \in 1..Len(body) : body[i] \in Range(Digits)

RECURSIVE Horner(_, _)
Horner(acc, rest) ==
    IF rest = <<>> THEN acc
    ELSE Horner(10 * acc + DigitValue(Head(rest)), Tail(rest))

DecimalValue(t) ==
    IF Head(t) = "-" THEN 0 - Horner(0, Tail(t)) ELSE Horner(0, t)

AllCodesDecimal ==
    \A i \in 1..Len(structures) :
        CarriesCode(structures[i]) => IsDecimalText(CodeTextOf(structures[i]))

\* C4 as stated: a Response.code text that is no integer is caught and the
\* structure skipped; construction completes and nothing reaches the caller.
C4_MalformedCodeNotPropagated == epc # "raised"

\* C6: when every code present is a decimal integer, construction completes
\* having processed every structure; error_api_map then holds exactly the
\* structures carrying a Response code, each with its integer value, and the
\* static table keeps its seeded values (not_found -> 404).
C6_DecimalCodesMapped ==
    AllCodesDecimal =>
        /\ epc # "raised"
        /\ epc = "done" =>
            /\ sidx = Len(structures) + 1
            /\ DOMAIN error_api_map =
                  {structures[i].name : i \in {k \in 1..Len(structures) :
                                                 CarriesCode(structures[k])}}
            /\ \A i \in 1..Len(structures) :
                  CarriesCode(structures[i]) =>
                      error_api_map[structures[i].name] =
                          DecimalValue(CodeTextOf(structures[i]))
            /\ error_rest_map = StaticErrorRestMap
            /\ error_rest_map["com.vmware.vapi.std.errors.not_found"] = 404

C6_Witness ==
    /\ epc = "done"
    /\ AllCodesDecimal
    /\ printed # <<>>
    /\ \E i \in 1..Len(structures) :
          /\ CarriesCode(structures[i])
          /\ structures[i].name = "com.vmware.vapi.std.errors.custom"
          /\ error_api_map[structures[i].name] = 500


(***************************************************************************)
(* Properties of add_query_param (under SpecQuery)                         *)
(***************************************************************************)
\* C7: add_query_param is idempotent: adding the same key=value to its own
\* result gives that result again, whatever the URL's query part is.
C7_AddQueryParamIdempotent == qpc = "done" => twice = once

C7_Witness ==
    /\ qpc = "done"
    /\ qparam # <<>>
    /\ "?" \in Range(qurl)
    /\ once = qurl \o <<"&">> \o qparam

(***************************************************************************)
(* Properties of metamodel_to_swagger_type_converter (under SpecType)      *)
(***************************************************************************)
\* the ten names of the translation table
TableNames ==
    { T_date_time, T_secret, T_any_error, T_opaque, T_dynamic_structure,
      T_uri, T_id, T_long, T_double, T_binary }

Unmatched(t) == \A n \in TableNames : lower(t) # n

\* C8 as stated: a type name that matches no table entry comes back as the
\* very string the caller gave, with no format.
C8_UnmatchedPassesThroughUnchanged ==
    (tpc = "done" /\ Unmatched(input_type)) => converted = <<input_type, None>>

\* C8 amended: the converter always returns a pair, and a type name that
\* matches no table entry comes back in lower case, letter for letter, with
\* no format.
C8_UnmatchedPassesThroughLowered ==
    tpc = "done" =>
        /\ Len(converted) = 2
        /\ Unmatched(input_type) =>
            /\ converted[2] = None
            /\ Len(converted[1]) = Len(input_type)
            /\ \A i \in 1..Len(input_type) :
                  converted[1][i] = LowerChar(input_type[i])

C8_Witness ==
    /\ tpc = "done"
    /\ Unmatched(input_type)
    /\ converted[1] # input_type


(***************************************************************************)
(* Properties of build_path and its post-processing (under SpecBuild)      *)
(***************************************************************************)
\* C5 as stated: on every path object build_path produces, also one built
\* with None for parameters, path or method, create_req_body_from_params_list
\* and add_basic_auth complete without raising.
C5_PostProcessingNeverRaises == bpc # "raised"

\* the entry is a reference into #/components/requestBodies/
PointsIntoRequestBodies(entry) ==
    /\ "$ref" \in DOMAIN entry
    /\ Len(entry["$ref"]) >= 4
    /\ entry["$ref"][1] = "#"
    /\ entry["$ref"][2] = "components"
    /\ entry["$ref"][3] = "requestBodies"

\* C10: create_req_body_from_params_list hoists only the first entry that
\* points into requestBodies: requestBody refers to it, it alone leaves
\* parameters, the other entries keep their order; with no such entry
\* parameters is unchanged and there is no requestBody.
C10_FirstRequestBodyHoisted ==
    "create_req_body_from_params_list" \in applied =>
        LET given == call.parameters.value
            q == {i \in 1..Len(given) : PointsIntoRequestBodies(given[i])}
        IN  IF q = {}
            THEN /\ path_obj["parameters"] = given
                 /\ "requestBody" \notin DOMAIN path_obj
            ELSE \E i \in q :
                    /\ \A j \in q : i <= j
                    /\ path_obj["requestBody"] = ("$ref" :> given[i]["$ref"])
                    /\ path_obj["parameters"] =
                          SubSeq(given, 1, i - 1) \o SubSeq(given, i + 1, Len(given))

C10_Witness ==
    /\ "create_req_body_from_params_list" \in applied
    /\ Len(call.parameters.value) >= 2
    /\ ~PointsIntoRequestBodies(call.parameters.value[1])
    /\ "requestBody" \in DOMAIN path_obj
    /\ Len(path_obj["parameters"]) = Len(call.parameters.value) - 1

=============================================================================
